---------------------------- MODULE Spec2Model ----------------------------
(***************************************************************************)
(* Model of expander.py: expand_contractions and its helpers               *)
(* (_extract_contractions, _consecutive_sub_list, _extract_replacements,   *)
(* _remove_pos_tags) run on one tagged sentence (is_split=True, so the     *)
(* tagger's output is the input).                                          *)
(*                                                                         *)
(* A string is a sequence of one-character strings, a tagged token is a    *)
(* record [word, pos], and every index kept in the state is a Python       *)
(* (0-based, possibly negative) index.                                     *)
(***************************************************************************)
EXTENDS Integers, Sequences, FiniteSets, TLC

\* expander.py: expand_contractions
VARIABLES sent, pc, idx_lst, groups, expanded, spans, lookups, output, result,
          err

\* disambiguate.py: write_dictionary
VARIABLES build_pc, sent_lst, pending, recorded, output_dict,
          ambiguity_counter

\* utils.py: conv_2_word_pos, the re-splitting of one sentence
VARIABLES split_pc, tokens, tmp, split_i, split_j, split_word

expand_vars == <<sent, pc, idx_lst, groups, expanded, spans, lookups, output,
                 result, err>>

build_vars == <<build_pc, sent_lst, pending, recorded, output_dict,
                ambiguity_counter>>

split_vars == <<split_pc, tokens, tmp, split_i, split_j, split_word>>

vars == <<expand_vars, build_vars, split_vars>>

(***************************************************************************)
(* Bounds                                                                  *)
(***************************************************************************)
MaxLen == 4

(***************************************************************************)
(* Characters and strings                                                  *)
(***************************************************************************)
APOS == "'"

SPACE == " "

\* the cased letters of the model's words, and their upper-case forms
LowerLetters == <<"a", "c", "d", "e", "f", "h", "i", "k", "l", "o", "r", "s",
                  "t", "u", "v", "w">>

UpperLetters == <<"A", "C", "D", "E", "F", "H", "I", "K", "L", "O", "R", "S",
                  "T", "U", "V", "W">>

UpperOf == [c \in {LowerLetters[k] : k \in 1..Len(LowerLetters)} |->
              UpperLetters[CHOOSE k \in 1..Len(LowerLetters) : LowerLetters[k] = c]]

\* str.isupper() of a one-character string
isupper(c) == \E l \in DOMAIN UpperOf : UpperOf[l] = c

\* str.upper() / str.lower() of one character
upper_char(c) == IF c \in DOMAIN UpperOf THEN UpperOf[c] ELSE c

lower_char(c) == IF isupper(c) THEN CHOOSE l \in DOMAIN UpperOf : UpperOf[l] = c
                 ELSE c

\* str.lower()
lower(s) == [k \in 1..Len(s) |-> lower_char(s[k])]

\* str.capitalize(): first character upper-cased, every other lower-cased
capitalize(s) == [k \in 1..Len(s) |->
                    IF k = 1 THEN upper_char(s[k]) ELSE lower_char(s[k])]

\* ''.join(list of strings)
RECURSIVE join(_)
join(ws) == IF ws = <<>> THEN <<>> ELSE Head(ws) \o join(Tail(ws))

\* nltk.word_tokenize on an expansion phrase made of plain words separated
\* by single spaces: the words, in order
RECURSIVE word_tokenize(_)
word_tokenize(s) ==
    IF s = <<>> THEN <<>>
    ELSE IF \E k \in 1..Len(s) : s[k] = SPACE
         THEN LET k == CHOOSE j \in 1..Len(s) :
                          s[j] = SPACE /\ \A i \in 1..(j-1) : s[i] # SPACE
              IN  (IF k = 1 THEN <<>> ELSE <<SubSeq(s, 1, k-1)>>)
                  \o word_tokenize(SubSeq(s, k+1, Len(s)))
         ELSE <<s>>

(***************************************************************************)
(* Python list indexing                                                    *)
(***************************************************************************)
Min(a, b) == IF a < b THEN a ELSE b

Max(a, b) == IF a > b THEN a ELSE b

\* the slice s[a:b] of a list, a and b clipped as Python clips them
Slice(s, a, b) ==
    LET n  == Len(s)
        lo == IF a < 0 THEN Max(a + n, 0) ELSE Min(a, n)
        hi == IF b < 0 THEN Max(b + n, 0) ELSE Min(b, n)
    IN  [k \in 1..Max(hi - lo, 0) |-> s[lo + k]]

\* the 1-based position that the Python index i names in a list of length n
PyPos(n, i) == IF i < 0 THEN i + n + 1 ELSE i + 1

(***************************************************************************)
(* The words of the model                                                  *)
(***************************************************************************)
w_we    == <<"w", "e">>
w_We    == <<"W", "e">>
w_o     == <<"o">>
w_d     == <<APOS, "d">>
w_D     == <<APOS, "D">>
w_ve    == <<APOS, "v", "e">>
w_s     == <<APOS, "s">>
w_clock == <<APOS, "c", "l", "o", "c", "k">>
w_er    == <<APOS, "e", "r">>
w_tis   == <<APOS, "t", "i", "s">>

p_we_would      == <<"w","e"," ","w","o","u","l","d">>
p_we_had        == <<"w","e"," ","h","a","d">>
p_we_have       == <<"w","e"," ","h","a","v","e">>
p_we_would_have == <<"w","e"," ","w","o","u","l","d"," ","h","a","v","e">>
p_of_the_clock  == <<"o","f"," ","t","h","e"," ","c","l","o","c","k">>
p_over          == <<"o","v","e","r">>
p_it_is         == <<"i","t"," ","i","s">>

\* the tagged tokens a sentence is made of
Tokens ==
    { [word |-> w_we,    pos |-> "PRP"],
      [word |-> w_We,    pos |-> "PRP"],
      [word |-> w_o,     pos |-> "NN"],
      [word |-> w_d,     pos |-> "MD"],
      [word |-> w_D,     pos |-> "MD"],
      [word |-> w_ve,    pos |-> "VBP"],
      [word |-> w_s,     pos |-> "POS"],
      [word |-> w_clock, pos |-> "NN"],
      [word |-> w_er,    pos |-> "NN"],
      [word |-> w_tis,   pos |-> "VBZ"] }

Sentences == UNION { [1..n -> Tokens] : n \in 0..MaxLen }

\* contractions.yaml as loaded: contracted string -> list of expansions
contractions ==
    (join(<<w_we, w_d>>)       :> <<p_we_would, p_we_had>>) @@
    (join(<<w_we, w_ve>>)      :> <<p_we_have>>) @@
    (join(<<w_we, w_d, w_ve>>) :> <<p_we_would_have>>) @@
    (join(<<w_o, w_clock>>)    :> <<p_of_the_clock>>) @@
    (join(<<w_o, w_er>>)       :> <<p_over>>) @@
    (w_tis                     :> <<p_it_is>>)

(***************************************************************************)
(* expander.py helpers                                                     *)
(***************************************************************************)
\* (a token's word is never the empty string: word_pos[0][0] is defined)

\* the test of line 34 without the possessive exclusion of line 35
IsContractionToken_NoPosCheck(word_pos) == word_pos.word[1] = APOS

\* the test of lines 34-35 on one (word, pos) tuple
IsContractionToken(word_pos) ==
    /\ word_pos.word[1] = APOS
    /\ word_pos.pos # "POS"

\* the indices (0-based, ascending) of the contraction tokens; the empty
\* list stands for the None the code returns
_extract_contractions(s) ==
    LET F[k \in 0..Len(s)] ==
            IF k = 0 THEN <<>>
            ELSE IF IsContractionToken(s[k]) THEN Append(F[k-1], k - 1)
                 ELSE F[k-1]
    IN  F[Len(s)]

\* a grouping whose key is the value alone: every index is its own group
_consecutive_sub_list_KeyIsValue(int_list) ==
    [k \in 1..Len(int_list) |-> <<int_list[k]>>]

\* itertools.groupby(enumerate(int_list), lambda x: x[1]-x[0]): successive
\* elements with the same (value - position) fall into one group
_consecutive_sub_list(int_list) ==
    LET key(k) == int_list[k] - (k - 1)
        G[k \in 0..Len(int_list)] ==
            IF k = 0 THEN <<>>
            ELSE IF k > 1 /\ key(k) = key(k-1)
                 THEN [G[k-1] EXCEPT ![Len(G[k-1])] = Append(@, int_list[k])]
                 ELSE Append(G[k-1], <<int_list[k]>>)
    IN  G[Len(int_list)]

_remove_pos_tags(s) == [k \in 1..Len(s) |-> s[k].word]

\* line 91
Consecutive(group) == <<group[1] - 1>> \o group

\* lines 95-96
Contr(s, consecutive) ==
    _remove_pos_tags(Slice(s, consecutive[1], consecutive[Len(consecutive)] + 1))

\* lines 100-112: "found" with the candidate phrases assigned to `expanded`,
\* "unknown" (warning and continue), or "unassigned" when the elif of line
\* 104 is taken and the if of line 105 is not, which reaches line 115 with
\* no assignment to `expanded`
Lookup(contr) ==
    LET surface == join(contr)
    IN  IF surface \in DOMAIN contractions
        THEN [surface |-> surface, kind |-> "found",
              expanded |-> contractions[surface]]
        ELSE IF lower(surface) \in DOMAIN contractions
        THEN IF isupper(surface[1])
             THEN [surface |-> surface, kind |-> "found",
                   expanded |-> [k \in 1..Len(contractions[lower(surface)]) |->
                                   capitalize(contractions[lower(surface)][k])]]
             ELSE [surface |-> surface, kind |-> "unassigned",
                   expanded |-> <<>>]
        ELSE [surface |-> surface, kind |-> "unknown", expanded |-> <<>>]

\* line 115
Tokenized(phrases) == [k \in 1..Len(phrases) |-> word_tokenize(phrases[k])]

\* lines 186-188 when every rplc_tuple[2][0][i] exists: the assignments
\* tmp[index] = words[i], made in order
Replaced(s, consecutive, words) ==
    LET n == Len(s)
        R[i \in 0..Len(consecutive)] ==
            IF i = 0 THEN _remove_pos_tags(s)
            ELSE [R[i-1] EXCEPT ![PyPos(n, consecutive[i])] = words[i]]
    IN  R[Len(consecutive)]

AMBIGUOUS == <<"A","M","B","I","G","U","O","U","S">>

(***************************************************************************)
(* expand_contractions on the sentence `sent`                              *)
(***************************************************************************)
\* write_dictionary is not running
BuildIdle ==
    /\ build_pc = "idle"
    /\ sent_lst = <<>>
    /\ pending = <<>>
    /\ recorded = <<>>
    /\ output_dict = <<>>
    /\ ambiguity_counter = 0

\* conv_2_word_pos is not running
SplitIdle ==
    /\ split_pc = "idle"
    /\ tokens = <<>>
    /\ tmp = <<>>
    /\ split_i = 0
    /\ split_j = 0
    /\ split_word = <<>>

Init ==
    /\ BuildIdle
    /\ SplitIdle
    /\ sent \in Sentences
    /\ pc = "sent"
    /\ idx_lst = <<>>
    /\ groups = <<>>
    /\ expanded = [bound |-> FALSE, value |-> <<>>]
    /\ spans = <<>>
    /\ lookups = <<>>
    /\ output = <<>>
    /\ result = <<>>
    /\ err = "none"

\* lines 172-177: no contraction in the sentence
NoContractions ==
    /\ pc = "sent"
    /\ _extract_contractions(sent) = <<>>
    /\ output' = Append(output, _remove_pos_tags(sent))
    /\ pc' = "return"
    /\ UNCHANGED <<sent, idx_lst, groups, expanded, spans, lookups, result, err>>
    /\ UNCHANGED <<build_vars, split_vars>>

\* lines 172-180: there are contractions, the generator is started
HasContractions ==
    /\ pc = "sent"
    /\ _extract_contractions(sent) # <<>>
    /\ idx_lst' = _extract_contractions(sent)
    /\ groups' = _consecutive_sub_list(_extract_contractions(sent))
    /\ pc' = "spans"
    /\ UNCHANGED <<sent, expanded, spans, lookups, output, result, err>>
    /\ UNCHANGED <<build_vars, split_vars>>

\* the span and the lookup of the next group (lines 88-112)
NextSpan == Consecutive(Head(groups))

NextLookup == Lookup(Contr(sent, NextSpan))

\* the generator moves to the next group; `expanded` keeps its value unless
\* the lookup assigned it (lines 101, 107) and line 115 tokenized it
Advance(lk) ==
    /\ groups' = Tail(groups)
    /\ spans' = Append(spans, NextSpan)
    /\ lookups' = Append(lookups, lk)
    /\ expanded' = IF lk.kind = "found"
                   THEN [bound |-> TRUE, value |-> Tokenized(lk.expanded)]
                   ELSE expanded
    /\ UNCHANGED <<sent, idx_lst, result>>

\* lines 109-112: unknown replacement, warning, next group
SkipUnknown ==
    /\ pc = "spans" /\ groups # <<>>
    /\ NextLookup.kind = "unknown"
    /\ Advance(NextLookup)
    /\ UNCHANGED <<pc, output, err>>
    /\ UNCHANGED <<build_vars, split_vars>>

\* lines 104-105 then 115 with no assignment to `expanded`: the name is
\* unbound in the first such iteration of the generator; after an earlier
\* span was found it still holds that span's lists of words, which
\* nltk.word_tokenize rejects
LookupUnassigned ==
    /\ pc = "spans" /\ groups # <<>>
    /\ NextLookup.kind = "unassigned"
    /\ Advance(NextLookup)
    /\ pc' = "raised"
    /\ err' = IF expanded.bound THEN "TypeError" ELSE "UnboundLocalError"
    /\ UNCHANGED output
    /\ UNCHANGED <<build_vars, split_vars>>

\* lines 185-189: one candidate with a word for every index of the span
ReplaceUnambiguous ==
    /\ pc = "spans" /\ groups # <<>>
    /\ NextLookup.kind = "found"
    /\ Len(NextLookup.expanded) = 1
    /\ LET words == Tokenized(NextLookup.expanded)[1]
       IN  /\ Len(words) >= Len(NextSpan)
           /\ output' = Append(output, Replaced(sent, NextSpan, words))
    /\ Advance(NextLookup)
    /\ UNCHANGED <<pc, err>>
    /\ UNCHANGED <<build_vars, split_vars>>

\* lines 185-188: one candidate with fewer words than the span has indices,
\* rplc_tuple[2][0][i] is out of range
ReplaceIndexError ==
    /\ pc = "spans" /\ groups # <<>>
    /\ NextLookup.kind = "found"
    /\ Len(NextLookup.expanded) = 1
    /\ Len(Tokenized(NextLookup.expanded)[1]) < Len(NextSpan)
    /\ Advance(NextLookup)
    /\ pc' = "raised"
    /\ err' = "IndexError"
    /\ UNCHANGED output
    /\ UNCHANGED <<build_vars, split_vars>>

\* lines 190-192: several candidates
Ambiguous ==
    /\ pc = "spans" /\ groups # <<>>
    /\ NextLookup.kind = "found"
    /\ Len(NextLookup.expanded) # 1
    /\ output' = Append(output, <<AMBIGUOUS>> \o _remove_pos_tags(sent))
    /\ Advance(NextLookup)
    /\ UNCHANGED <<pc, err>>
    /\ UNCHANGED <<build_vars, split_vars>>

\* the generator is exhausted, the loop over the sentences ends
SentDone ==
    /\ pc = "spans" /\ groups = <<>>
    /\ pc' = "return"
    /\ UNCHANGED <<sent, idx_lst, groups, expanded, spans, lookups, output, result,
                   err>>
    /\ UNCHANGED <<build_vars, split_vars>>

\* line 200
Return ==
    /\ pc = "return"
    /\ result' = output
    /\ pc' = "done"
    /\ UNCHANGED <<sent, idx_lst, groups, expanded, spans, lookups, output, err>>
    /\ UNCHANGED <<build_vars, split_vars>>

Next ==
    \/ NoContractions
    \/ HasContractions
    \/ SkipUnknown
    \/ LookupUnassigned
    \/ ReplaceUnambiguous
    \/ ReplaceIndexError
    \/ Ambiguous
    \/ SentDone
    \/ Return

Spec == Init /\ [][Next]_vars

(***************************************************************************)
(* disambiguate.py: write_dictionary over a corpus of one sentence         *)
(***************************************************************************)
MaxWords == 4

w_would  == <<"w","o","u","l","d">>
w_should == <<"s","h","o","u","l","d">>
w_had    == <<"h","a","d">>
w_have   == <<"h","a","v","e">>
w_madam  == <<"m","a","d","a","m">>

p_we_should_have == <<"w","e"," ","s","h","o","u","l","d"," ","h","a","v","e">>
p_mam            == <<"m","a","m">>

k_ma_am == <<"m","a",APOS,"a","m">>

\* the words a corpus sentence is made of, and the corpus sentences
CorpusWords == {w_we, w_would, w_should, w_had, w_have, w_madam}

CorpusSentences == UNION { [1..n -> CorpusWords] : n \in 1..MaxWords }

\* the tags the tagger may give a token
Tags == {"MD", "VBD"}

\* contractions.yaml as loaded by write_dictionary, in file order:
\* <<contracted string, list of expansions>>
contraction_items ==
    << <<join(<<w_we, w_d>>),       <<p_we_would, p_we_had>>>>,
       <<join(<<w_we, w_ve>>),      <<p_we_have>>>>,
       <<join(<<w_we, w_d, w_ve>>), <<p_we_would_have, p_we_should_have>>>>,
       <<k_ma_am,                   <<w_madam, p_mam>>>> >>

\* ' '.join(list of words)
RECURSIVE join_space(_)
join_space(ws) ==
    IF ws = <<>> THEN <<>>
    ELSE IF Len(ws) = 1 THEN Head(ws)
    ELSE Head(ws) \o <<SPACE>> \o join_space(Tail(ws))

\* str.split(): the words between the spaces
split(s) == word_tokenize(s)

\* str.split(sep): the pieces between the occurrences of the character sep
RECURSIVE split_on(_, _)
split_on(s, sep) ==
    IF \E k \in 1..Len(s) : s[k] = sep
    THEN LET k == CHOOSE j \in 1..Len(s) :
                     s[j] = sep /\ \A i \in 1..(j-1) : s[i] # sep
         IN  <<SubSeq(s, 1, k-1)>> \o split_on(SubSeq(s, k+1, Len(s)), sep)
    ELSE <<s>>

\* a in b, for strings
is_substring(a, b) ==
    \E k \in 0..(Len(b) - Len(a)) : SubSeq(b, k+1, k+Len(a)) = a

\* lines 150-153: the (expansion, contraction) pairs in the order the two
\* loops visit them, the contractions with one expansion skipped
RECURSIVE AmbiguousPairs(_)
AmbiguousPairs(items) ==
    IF items = <<>> THEN <<>>
    ELSE LET key   == Head(items)[1]
             value == Head(items)[2]
         IN  (IF Len(value) = 1 THEN <<>>
              ELSE [m \in 1..Len(value) |->
                      [expansion |-> value[m], key |-> key]])
             \o AmbiguousPairs(Tail(items))

\* lines 149-159: the inverted dictionary as the ordered list of its
\* (expansion, contraction) items; a later contraction overwrites the value
\* of an expansion that is already a key, which keeps its place
Invert(items) ==
    LET pairs == AmbiguousPairs(items)
        D[n \in 0..Len(pairs)] ==
            IF n = 0 THEN <<>>
            ELSE IF \E m \in 1..Len(D[n-1]) :
                        D[n-1][m].expansion = pairs[n].expansion
                 THEN [m \in 1..Len(D[n-1]) |->
                         IF D[n-1][m].expansion = pairs[n].expansion
                         THEN pairs[n] ELSE D[n-1][m]]
                 ELSE Append(D[n-1], pairs[n])
    IN  D[Len(pairs)]

expansions == Invert(contraction_items)

\* _find_sub_list: the 0-based (first, last) indices of the occurrences of
\* sublist in full_list, in ascending order
_find_sub_list(sublist, full_list) ==
    LET F[k \in 0..Len(full_list)] ==
            IF k = 0 THEN <<>>
            ELSE IF /\ full_list[k] = sublist[1]
                    /\ Slice(full_list, k - 1, k - 1 + Len(sublist)) = sublist
                 THEN Append(F[k-1], <<k - 1, k - 1 + Len(sublist) - 1>>)
                 ELSE F[k-1]
    IN  F[Len(full_list)]

\* lines 98-117: the contraction of an expansion as the list of its tokens,
\* as the bare string of the one-word branch, or the failed assertion
Contraction(e) ==
    LET n     == Len(split(e.expansion))
        parts == split_on(e.key, APOS)
    IN  IF n \in {2, 3}
        THEN IF Len(parts) # n
             THEN [kind |-> "AssertionError", value |-> <<>>]
             ELSE [kind |-> "list",
                   value |-> [m \in 1..n |->
                                IF m = 1 THEN parts[m] ELSE <<APOS>> \o parts[m]]]
        ELSE IF Len(e.expansion) # 1
             THEN [kind |-> "AssertionError", value |-> <<>>]
             ELSE [kind |-> "string", value |-> e.key]

\* one item of the generator: a yielded tuple (first index, replaced words,
\* contracted sentence) of sentence number si, or the exception that ends it
Yielded(si, first_index, replaced, contr_sent) ==
    [kind |-> "yield", si |-> si, first_index |-> first_index,
     replaced |-> replaced, contr_sent |-> contr_sent, err |-> "none"]

Raised(si, e) ==
    [kind |-> "raise", si |-> si, first_index |-> 0, replaced |-> <<>>,
     contr_sent |-> <<>>, err |-> e]

\* lines 97-127 for one expansion of one sentence
ExpansionResults(si, s, e) ==
    LET c          == Contraction(e)
        occurences == _find_sub_list(split(e.expansion), s)
    IN  IF c.kind = "AssertionError" THEN <<Raised(si, "AssertionError")>>
        ELSE IF occurences = <<>> THEN <<>>
        ELSE IF c.kind = "string" THEN <<Raised(si, "TypeError")>>
        ELSE [n \in 1..Len(occurences) |->
                LET first_index == occurences[n][1]
                IN  Yielded(si, first_index,
                            Slice(s, first_index, first_index + Len(c.value)),
                            Slice(s, 0, first_index) \o c.value
                              \o Slice(s, first_index + Len(c.value), Len(s)))]

\* lines 77-96: the expansions that occur, as strings, in ' '.join(sent)
RelevantExpansions(exps, s) ==
    LET R[n \in 0..Len(exps)] ==
            IF n = 0 THEN <<>>
            ELSE IF is_substring(exps[n].expansion, join_space(s))
                 THEN Append(R[n-1], exps[n])
                 ELSE R[n-1]
    IN  R[Len(exps)]

RECURSIVE SentenceResults(_, _, _)
SentenceResults(si, s, exps) ==
    IF exps = <<>> THEN <<>>
    ELSE ExpansionResults(si, s, Head(exps)) \o SentenceResults(si, s, Tail(exps))

\* the items up to the first exception
UntilRaise(items) ==
    IF \E n \in 1..Len(items) : items[n].kind = "raise"
    THEN SubSeq(items, 1, CHOOSE n \in 1..Len(items) :
                             /\ items[n].kind = "raise"
                             /\ \A m \in 1..(n-1) : items[m].kind # "raise")
    ELSE items

\* _contract_sentences: everything the generator does, in order
_contract_sentences(exps, lst) ==
    LET All[n \in 0..Len(lst)] ==
            IF n = 0 THEN <<>>
            ELSE All[n-1]
                 \o SentenceResults(n - 1, lst[n], RelevantExpansions(exps, lst[n]))
    IN  UntilRaise(All[Len(lst)])

\* lines 185-190 with the record made anew for the other expansion: the
\* expansions counted before under contr_pos are lost
Observe_NewRecordOnAmbiguity(dict, contr_pos, word) ==
    IF contr_pos \notin DOMAIN dict
    THEN (contr_pos :> (word :> 1)) @@ dict
    ELSE IF word \in DOMAIN dict[contr_pos]
    THEN [dict EXCEPT ![contr_pos][word] = @ + 1]
    ELSE [dict EXCEPT ![contr_pos] = (word :> 1)]

\* lines 173-195 on the dictionary: the record of contr_pos is created with
\* word counted once, or the count of word goes up by one, or word is added
\* to the record with a count of one
Observe(dict, contr_pos, word) ==
    IF contr_pos \notin DOMAIN dict
    THEN (contr_pos :> (word :> 1)) @@ dict
    ELSE IF word \in DOMAIN dict[contr_pos]
    THEN [dict EXCEPT ![contr_pos][word] = @ + 1]
    ELSE [dict EXCEPT ![contr_pos] = (word :> 1) @@ @]

\* expand_contractions is not running
ExpandIdle ==
    /\ sent = <<>>
    /\ pc = "idle"
    /\ idx_lst = <<>>
    /\ groups = <<>>
    /\ expanded = [bound |-> FALSE, value |-> <<>>]
    /\ spans = <<>>
    /\ lookups = <<>>
    /\ output = <<>>
    /\ result = <<>>
    /\ err = "none"

\* lines 144-164
InitBuild ==
    /\ ExpandIdle
    /\ SplitIdle
    /\ sent_lst \in { <<s>> : s \in CorpusSentences }
    /\ build_pc = "loop"
    /\ pending = _contract_sentences(expansions, sent_lst)
    /\ recorded = <<>>
    /\ output_dict = <<>>
    /\ ambiguity_counter = 0

\* lines 166-172: the tagger's answer for the contracted sentence, the tags
\* of the contracted part and the observed expansion
TaggedPart(item, tags) ==
    Slice([n \in 1..Len(item.contr_sent) |-> <<item.contr_sent[n], tags[n]>>],
          item.first_index, item.first_index + Len(item.replaced))

Consume(item, tags) ==
    /\ pending' = Tail(pending)
    /\ recorded' = Append(recorded, item)
    /\ output_dict' = Observe(output_dict, TaggedPart(item, tags),
                              join_space(item.replaced))
    /\ UNCHANGED <<build_pc, sent_lst>>

\* lines 173-180: first observation of the tagged contraction
RecordNewKey ==
    /\ build_pc = "loop" /\ pending # <<>> /\ Head(pending).kind = "yield"
    /\ \E tags \in [1..Len(Head(pending).contr_sent) -> Tags] :
          /\ TaggedPart(Head(pending), tags) \notin DOMAIN output_dict
          /\ Consume(Head(pending), tags)
    /\ UNCHANGED ambiguity_counter
    /\ UNCHANGED <<expand_vars, split_vars>>

\* lines 181-184: the same expansion observed again
RecordAgain ==
    /\ build_pc = "loop" /\ pending # <<>> /\ Head(pending).kind = "yield"
    /\ \E tags \in [1..Len(Head(pending).contr_sent) -> Tags] :
          /\ TaggedPart(Head(pending), tags) \in DOMAIN output_dict
          /\ join_space(Head(pending).replaced)
                \in DOMAIN output_dict[TaggedPart(Head(pending), tags)]
          /\ Consume(Head(pending), tags)
    /\ UNCHANGED ambiguity_counter
    /\ UNCHANGED <<expand_vars, split_vars>>

\* lines 185-195: another expansion for a tagged contraction already there
RecordAmbiguity ==
    /\ build_pc = "loop" /\ pending # <<>> /\ Head(pending).kind = "yield"
    /\ \E tags \in [1..Len(Head(pending).contr_sent) -> Tags] :
          /\ TaggedPart(Head(pending), tags) \in DOMAIN output_dict
          /\ join_space(Head(pending).replaced)
                \notin DOMAIN output_dict[TaggedPart(Head(pending), tags)]
          /\ Consume(Head(pending), tags)
    /\ ambiguity_counter' = ambiguity_counter + 1
    /\ UNCHANGED <<expand_vars, split_vars>>

\* an assertion of _contract_sentences fails (lines 104, 112) or line 123
\* adds a string to a list: write_dictionary ends without writing the file
GeneratorRaises ==
    /\ build_pc = "loop" /\ pending # <<>> /\ Head(pending).kind = "raise"
    /\ build_pc' = "raised"
    /\ pending' = Tail(pending)
    /\ UNCHANGED <<sent_lst, recorded, output_dict, ambiguity_counter>>
    /\ UNCHANGED <<expand_vars, split_vars>>

\* lines 196-197: the generator is exhausted, the dictionary is written
WriteFile ==
    /\ build_pc = "loop" /\ pending = <<>>
    /\ build_pc' = "done"
    /\ UNCHANGED <<sent_lst, pending, recorded, output_dict, ambiguity_counter>>
    /\ UNCHANGED <<expand_vars, split_vars>>

NextBuild ==
    \/ RecordNewKey
    \/ RecordAgain
    \/ RecordAmbiguity
    \/ GeneratorRaises
    \/ WriteFile

SpecBuild == InitBuild /\ [][NextBuild]_vars

(***************************************************************************)
(* conv_2_word_pos (utils.py): the re-splitting of the word tokens of one  *)
(* sentence when is_split is False                                         *)
(***************************************************************************)
\* the sentences are all the token lists of at most MaxChars characters
MaxChars == 6

SplitChars == {"a", "b", APOS}

SplitStrings == UNION { [1..n -> SplitChars] : n \in 0..MaxChars }

\* the tokens of the string s when it is cut after the positions in cuts
Cut(s, cuts) ==
    LET ends    == IF s = <<>> THEN {} ELSE cuts \cup {Len(s)}
        nth(k)  == CHOOSE e \in ends : Cardinality({c \in ends : c <= e}) = k
        from(e) == 1 + (CHOOSE m \in {c \in cuts \cup {0} : c < e} :
                           \A c \in cuts \cup {0} : c < e => c <= m)
    IN  [k \in 1..Cardinality(ends) |-> SubSeq(s, from(nth(k)), nth(k))]

\* a token as the tokenizer leaves it: it separates a closing apostrophe and
\* a doubled apostrophe from the word, so an apostrophe of a longer token is
\* followed by a letter
WordToken(w) ==
    \/ w = <<APOS>>
    \/ /\ w # <<>>
       /\ w[Len(w)] # APOS
       /\ \A k \in 1..(Len(w) - 1) : ~(w[k] = APOS /\ w[k + 1] = APOS)

\* line 121: "'" in word[1:-1]
InternalApostrophe(word) == \E k \in 2..(Len(word) - 1) : word[k] = APOS

\* word.split("'", 1)[0], for a word that holds an apostrophe
SplitHead(word) ==
    LET k == CHOOSE a \in 1..Len(word) :
                 /\ word[a] = APOS
                 /\ \A b \in 1..(a - 1) : word[b] # APOS
    IN  SubSeq(word, 1, k - 1)

\* word.split("'", 1)[1], for a word that holds an apostrophe
SplitRest(word) == SubSeq(word, Len(SplitHead(word)) + 2, Len(word))

\* lines 116-117: tmp is the tokenized sentence, any list of word tokens, and
\* the for loop starts on it
InitSplit ==
    /\ ExpandIdle
    /\ BuildIdle
    /\ \E s \in SplitStrings : \E cuts \in SUBSET (1..(Len(s) - 1)) :
          /\ \A k \in 1..Len(Cut(s, cuts)) : WordToken(Cut(s, cuts)[k])
          /\ tokens = Cut(s, cuts)
    /\ tmp = tokens
    /\ split_pc = "for"
    /\ split_i = 0
    /\ split_j = 0
    /\ split_word = <<>>

\* lines 118-119: enumerate gives the next word of the list the loop was
\* started on (the rebinding of tmp at line 138 does not change that list)
NextWord ==
    /\ split_pc = "for"
    /\ split_i < Len(tokens)
    /\ split_word' = tokens[split_i + 1]
    /\ split_j' = 0
    /\ split_pc' = "while"
    /\ UNCHANGED <<tokens, tmp, split_i>>
    /\ UNCHANGED <<expand_vars, build_vars>>

\* lines 121-139: one pass of the while loop
SplitStep ==
    /\ split_pc = "while"
    /\ InternalApostrophe(split_word)
    /\ tmp' = Slice(tmp, 0, split_i + split_j)
              \o << IF split_j # 0 THEN <<APOS>> \o SplitHead(split_word)
                                   ELSE SplitHead(split_word) >>
              \o << <<APOS>> \o SplitRest(split_word) >>
              \o Slice(tmp, split_i + split_j + 1, Len(tmp))
    /\ split_word' = SplitRest(split_word)
    /\ split_j' = split_j + 1
    /\ UNCHANGED <<split_pc, tokens, split_i>>
    /\ UNCHANGED <<expand_vars, build_vars>>

\* line 121: the while condition is false, the for loop goes on
WordDone ==
    /\ split_pc = "while"
    /\ ~InternalApostrophe(split_word)
    /\ split_i' = split_i + 1
    /\ split_pc' = "for"
    /\ UNCHANGED <<tokens, tmp, split_j, split_word>>
    /\ UNCHANGED <<expand_vars, build_vars>>

\* line 140: the for loop is exhausted, output.append(tmp)
AppendOutput ==
    /\ split_pc = "for"
    /\ split_i = Len(tokens)
    /\ split_pc' = "done"
    /\ UNCHANGED <<tokens, tmp, split_i, split_j, split_word>>
    /\ UNCHANGED <<expand_vars, build_vars>>

NextSplit ==
    \/ NextWord
    \/ SplitStep
    \/ WordDone
    \/ AppendOutput

SpecSplit == InitSplit /\ [][NextSplit]_vars

(***************************************************************************)
(* Vocabulary of the properties, stated on the sentence alone              *)
(***************************************************************************)
\* the generator of _extract_replacements has gone through every group
SpansMatched == pc \in {"return", "done"}

\* the call has ended, by returning or by raising
Finished == pc \in {"done", "raised"}

\* the 1-based positions of the contraction tokens: surface starts with an
\* apostrophe, tag is not POS
ContractionPositions ==
    { p \in 1..Len(sent) : sent[p].word[1] = "'" /\ sent[p].pos # "POS" }

\* the maximal runs of adjacent contraction tokens, as <<first, last>>
MaximalRuns ==
    { r \in (1..Len(sent)) \X (1..Len(sent)) :
        /\ r[1] <= r[2]
        /\ \A p \in r[1]..r[2] : p \in ContractionPositions
        /\ (r[1] - 1) \notin ContractionPositions
        /\ (r[2] + 1) \notin ContractionPositions }

\* the token positions (1-based) that the Python indices of a span name
SpanPositions(span) ==
    { (IF span[i] < 0 THEN span[i] + Len(sent) ELSE span[i]) + 1 :
        i \in 1..Len(span) }

\* the span the spec describes for a run: the position before it, then it
HeadAndRun(r) == [i \in 1..(r[2] - r[1] + 2) |-> r[1] - 3 + i]

\* the runs that have a head word before them, their span and its surface
HeadedRuns == { r \in MaximalRuns : r[1] >= 2 }

SpanLen(r) == r[2] - r[1] + 2

SpanWords(r) == [i \in 1..SpanLen(r) |-> sent[r[1] - 2 + i].word]

\* the first letter capitalised, every other character unchanged
CapFirst(s) == [k \in 1..Len(s) |-> IF k = 1 THEN upper_char(s[k]) ELSE s[k]]

\* the candidates the table holds for a surface form: exact key first, then
\* the lower-cased key, capitalised when the surface starts in upper case;
\* empty when the table has neither key
TableCandidates(surface) ==
    IF surface \in DOMAIN contractions THEN contractions[surface]
    ELSE IF lower(surface) \in DOMAIN contractions
         THEN IF isupper(surface[1])
              THEN [k \in 1..Len(contractions[lower(surface)]) |->
                      CapFirst(contractions[lower(surface)][k])]
              ELSE contractions[lower(surface)]
         ELSE <<>>

Candidates(r) == TableCandidates(join(SpanWords(r)))

AmbiguousRuns == { r \in HeadedRuns : Len(Candidates(r)) >= 2 }

SingleRuns == { r \in HeadedRuns : Len(Candidates(r)) = 1 }

UnknownRuns == { r \in HeadedRuns : Len(Candidates(r)) = 0 }

OriginalWords == [p \in 1..Len(sent) |-> sent[p].word]

Flagged == <<AMBIGUOUS>> \o OriginalWords

(***************************************************************************)
(* C1: for any tagged sentence, span matching gives exactly one span per   *)
(* maximal run of adjacent contraction tokens, made of the single token    *)
(* immediately before the run followed by the run, and no two spans of     *)
(* the sentence share a token index.                                       *)
(***************************************************************************)
C1_OneSpanPerMaximalRun ==
    SpansMatched =>
        /\ Len(spans) = Cardinality(MaximalRuns)
        /\ \A r \in MaximalRuns :
              /\ r[1] - 1 \in 1..Len(sent)
              /\ \E k \in 1..Len(spans) : spans[k] = HeadAndRun(r)
        /\ \A j, k \in 1..Len(spans) :
              j # k => SpanPositions(spans[j]) \cap SpanPositions(spans[k]) = {}

(***************************************************************************)
(* C2: a sentence with exactly one contraction span whose surface form has *)
(* exactly one candidate in the table is output with the span's tokens     *)
(* replaced position by position by the candidate's words, every other     *)
(* token identical to the input and the sentence length unchanged.         *)
(* Stated for a candidate that has one word per token of the span, the     *)
(* case in which the positions of the claim are defined (C10 is about the  *)
(* other candidates).                                                      *)
(***************************************************************************)
C2_SingleCandidateApplied ==
    (Finished /\ Cardinality(MaximalRuns) = 1 /\ Cardinality(SingleRuns) = 1) =>
        LET r     == CHOOSE x \in SingleRuns : TRUE
            words == word_tokenize(Candidates(r)[1])
        IN  Len(words) = SpanLen(r) =>
              /\ pc = "done"
              /\ Len(result) = 1
              /\ Len(result[1]) = Len(sent)
              /\ [i \in 1..SpanLen(r) |-> result[1][r[1] - 2 + i]] = words
              /\ \A p \in 1..Len(sent) :
                    p \notin (r[1] - 1)..r[2] => result[1][p] = sent[p].word

(***************************************************************************)
(* C3: a span with two or more candidates in the table is never resolved:  *)
(* an output that starts with the AMBIGUOUS marker followed by all the     *)
(* original tokens is emitted for it, one such output per ambiguous span.  *)
(***************************************************************************)
C3_AmbiguousFlagged ==
    (Finished /\ AmbiguousRuns # {}) =>
        /\ pc = "done"
        /\ Cardinality({ k \in 1..Len(result) : result[k] = Flagged })
              = Cardinality(AmbiguousRuns)

(***************************************************************************)
(* C5: a span whose surface form is in the table neither exactly nor       *)
(* lower-cased is skipped and the sentence still appears in the result     *)
(* with the tokens of that span unchanged.                                 *)
(***************************************************************************)
C5_UnknownSpanKept ==
    (pc = "done" /\ UnknownRuns # {}) =>
        \A r \in UnknownRuns :
            \E k \in 1..Len(result) :
                \/ result[k] = Flagged
                \/ /\ Len(result[k]) = Len(sent)
                   /\ \A p \in (r[1] - 1)..r[2] : result[k][p] = sent[p].word

(***************************************************************************)
(* C6: a sentence in which no span is ambiguous gives exactly one output   *)
(* sentence, in which every span with a single candidate is replaced (two  *)
(* unambiguous spans give one output with both expanded).  Stated for the  *)
(* sentences whose runs all have a head word, a table entry and a          *)
(* candidate of one word per token; the other sentences are the subject of *)
(* C5, C9 and C10.                                                         *)
(***************************************************************************)
C6_OneOutputAllReplaced ==
    (/\ pc = "done"
     /\ AmbiguousRuns = {} /\ UnknownRuns = {} /\ HeadedRuns = MaximalRuns
     /\ \A r \in SingleRuns :
           Len(word_tokenize(Candidates(r)[1])) = SpanLen(r)) =>
        /\ Len(result) = 1
        /\ Len(result[1]) = Len(sent)
        /\ \A r \in SingleRuns :
              [i \in 1..SpanLen(r) |-> result[1][r[1] - 2 + i]]
                  = word_tokenize(Candidates(r)[1])

(***************************************************************************)
(* C7: the lookup of a surface form tries the exact form, then the         *)
(* lower-cased form; whenever either is a key it returns the entry's       *)
(* candidates, with only the first letter capitalised when the match came  *)
(* from the lower-cased form and the surface starts in upper case, and     *)
(* unchanged when the surface does not start in upper case.                *)
(***************************************************************************)
C7_LookupReturnsCandidates ==
    \A k \in 1..Len(lookups) :
        TableCandidates(lookups[k].surface) # <<>> =>
            /\ lookups[k].kind = "found"
            /\ lookups[k].expanded = TableCandidates(lookups[k].surface)

(***************************************************************************)
(* C10: when the single candidate of a span has a number of words          *)
(* different from the number of tokens of the span, the call fails with an *)
(* error; no output is returned for a sentence that holds such a span.     *)
(***************************************************************************)
C10_WordCountMismatchFails ==
    pc = "done" =>
        \A r \in SingleRuns :
            Len(word_tokenize(Candidates(r)[1])) = SpanLen(r)

(***************************************************************************)
(* C4: a sentence with no contraction token (no apostrophe-initial token,  *)
(* or only POS-tagged ones) is returned as exactly one output sentence     *)
(* whose tokens are the input tokens in order.                             *)
(***************************************************************************)
C4_NoContractionUnchanged ==
    (ContractionPositions = {}) =>
        /\ pc # "raised"
        /\ pc = "done" =>
              result = << [p \in 1..Len(sent) |-> sent[p].word] >>

\* Peter / 's / house: a returned sentence holding a POS-tagged 's
C4_Witness ==
    /\ pc = "done"
    /\ ContractionPositions = {}
    /\ \E p \in 1..Len(sent) : sent[p].word[1] = "'" /\ sent[p].pos = "POS"
    /\ Len(result) = 1

(***************************************************************************)
(* C8 as stated: every contraction span covers at most three tokens, also  *)
(* when three or more contraction tokens are adjacent.                     *)
(***************************************************************************)
C8_AtMostThreeTokens ==
    \A k \in 1..Len(spans) : Cardinality(SpanPositions(spans[k])) <= 3

(***************************************************************************)
(* C8 amended: every contraction span covers the position before its       *)
(* maximal run and the whole run, so a run of n contraction tokens gives a *)
(* span of n + 1 indices, with no cap at three.                            *)
(***************************************************************************)
C8_SpanIsHeadPlusWholeRun ==
    SpansMatched =>
        /\ Len(spans) = Cardinality(MaximalRuns)
        /\ \A k \in 1..Len(spans) :
              \E r \in MaximalRuns :
                  /\ spans[k][Len(spans[k])] = r[2] - 1
                  /\ Len(spans[k]) = (r[2] - r[1] + 1) + 1

\* Y / 'all / 'd / 've: a span of four indices
C8_Witness ==
    /\ SpansMatched
    /\ \E k \in 1..Len(spans) : Len(spans[k]) = 4 /\ spans[k][1] = 0

(***************************************************************************)
(* C9: a contraction token at index 0 makes span matching signal an        *)
(* InvalidSpanError for that span; no span is built from index -1 and the  *)
(* span is neither yielded nor dropped silently.                           *)
(***************************************************************************)
C9_InvalidSpanAtIndexZero ==
    /\ \A k \in 1..Len(spans) : spans[k][1] >= 0
    /\ (1 \in ContractionPositions /\ pc \notin {"sent", "spans"}) =>
          (pc = "raised" /\ err = "InvalidSpanError")

(***************************************************************************)
(* C11: the corpus builder contracts a sentence by a greedy, longest match *)
(* first, left to right scan (3-word window before 2-word before 1-word,   *)
(* the scan resuming after the window consumed), so the contractions       *)
(* recorded from one sentence never cover overlapping word positions and a *)
(* position matched by a 3-word expansion is not also recorded as the      *)
(* 2-word expansion that starts there.                                     *)
(***************************************************************************)
RecordedPositions(item) ==
    item.first_index .. (item.first_index + Len(item.replaced) - 1)

C11_RecordedWindowsDisjoint ==
    \A m, n \in 1..Len(recorded) :
        (m # n /\ recorded[m].si = recorded[n].si) =>
            RecordedPositions(recorded[m]) \cap RecordedPositions(recorded[n]) = {}

(***************************************************************************)
(* C12: during one run of write_dictionary the table only grows: a key's   *)
(* record is created at its first observation and never removed or         *)
(* replaced, every stored count is a positive integer that never           *)
(* decreases, and each processed result adds exactly one to the count of   *)
(* its key and observed expansion phrase and changes no other count.       *)
(***************************************************************************)
CountIn(dict, key, phrase) ==
    IF key \in DOMAIN dict
    THEN IF phrase \in DOMAIN dict[key] THEN dict[key][phrase] ELSE 0
    ELSE 0

PhrasesIn(dict) == UNION { DOMAIN dict[key] : key \in DOMAIN dict }

\* the words of the corpus sentence that a processed result replaced
ObservedPhrase(item) ==
    join_space([n \in 1..Len(item.replaced) |->
                  sent_lst[item.si + 1][item.first_index + n]])

C12_TableOnlyGrows ==
    [][ /\ DOMAIN output_dict \subseteq DOMAIN output_dict'
        /\ \A key \in DOMAIN output_dict :
              /\ DOMAIN output_dict[key] \subseteq DOMAIN output_dict'[key]
              /\ \A phrase \in DOMAIN output_dict[key] :
                    output_dict'[key][phrase] >= output_dict[key][phrase]
        /\ \A key \in DOMAIN output_dict' :
              \A phrase \in DOMAIN output_dict'[key] :
                  output_dict'[key][phrase] \in Nat \ {0}
        /\ (recorded' # recorded) =>
              \E key \in DOMAIN output_dict' :
                  LET item   == recorded'[Len(recorded')]
                      phrase == ObservedPhrase(item)
                  IN  /\ [n \in 1..Len(key) |-> key[n][1]]
                          = [n \in 1..Len(item.replaced) |->
                               item.contr_sent[item.first_index + n]]
                      /\ CountIn(output_dict', key, phrase)
                          = CountIn(output_dict, key, phrase) + 1
                      /\ \A k2 \in DOMAIN output_dict' :
                            \A p2 \in PhrasesIn(output_dict') :
                                <<k2, p2>> # <<key, phrase>> =>
                                    CountIn(output_dict', k2, p2)
                                        = CountIn(output_dict, k2, p2)
      ]_vars

\* a record that was created by one result and updated by a later one: an
\* expansion counted twice under its key
C12_Witness ==
    /\ build_pc = "done"
    /\ Len(recorded) >= 2
    /\ \E key \in DOMAIN output_dict :
          \E phrase \in DOMAIN output_dict[key] : output_dict[key][phrase] = 2

\* C13: when the re-splitting of a sentence is finished, no token of the
\* result other than the first holds an apostrophe outside position 0, and
\* the result tokens concatenate to the same string as the input tokens
C13_ResplitCompleteAndLossless ==
    split_pc = "done" =>
        /\ \A k \in 2..Len(tmp) :
               \A p \in 2..Len(tmp[k]) : tmp[k][p] # APOS
        /\ join(tmp) = join(tokens)

=============================================================================
